---- MODULE Spec2Model ----
(***************************************************************************)
(* Model of modules/set-refresh-rate.py: one invocation of                 *)
(* `set-refresh-rate.py <arg>` (main -> set_refresh_rate) talking to the   *)
(* Mutter DisplayConfig service (GetCurrentState / ApplyMonitorsConfig).   *)
(*                                                                         *)
(* Refresh rates are kept in half-hertz units (120 = 60.0 Hz, 121 = 60.5   *)
(* Hz, 122 = 61.0 Hz): all of them are exact binary floats, so the float   *)
(* subtraction and comparison of the code are exact integer arithmetic.    *)
(***************************************************************************)
EXTENDS Integers, Sequences, FiniteSets, TLC

\* ------------------------------------------------------------- bounds
\* Largest number of mode entries in a fetched state (all connectors).
MaxModes == 3
\* Number of tool invocations that may run concurrently.
NumProcs == 2
\* External (non-tool) configuration changes stop once the serial is here.
MaxSerial == 2

Procs == 1..NumProcs

\* ---------------------------------------------------- program constants
\* `abs(m['refresh'] - target_refresh) < 1.0`, in half-hertz units.
Tolerance == 2
\* `method = 1` (persistent) in apply_config.
Method == 1

\* ------------------------------------------------------ input universe
ConnectorNames == <<"DP-1", "HDMI-1">>
Resolutions == {<<1920, 1080>>, <<1920, 1200>>}
RefreshRates == {120, 121}
Args == {"60", "61", "fast"}
ModeIds == <<"m1", "m2", "m3", "m4", "m5">>

\* Shapes of a raw mode tuple: well formed (7 fields) or truncated (3).
ModeKinds ==
    [res : Resolutions, refresh : RefreshRates, cur : BOOLEAN, fields : {7}]
    \cup {[res |-> <<1920, 1080>>, refresh |-> 120, cur |-> FALSE, fields |-> 3]}

NoProps == [k \in {} |-> TRUE]

ModeProps(cur, pref) ==
    [k \in (IF cur THEN {"is-current"} ELSE {})
           \cup (IF pref THEN {"is-preferred"} ELSE {}) |-> TRUE]

\* The raw tuple (mode_id, width, height, refresh, scale, scales, props).
MkMode(id, kind, pref) ==
    SubSeq(<<id, kind.res[1], kind.res[2], kind.refresh, 1, <<1>>,
             ModeProps(kind.cur, pref)>>, 1, kind.fields)

ConnectorInfo(c) == <<ConnectorNames[c], "VND", "PRD", "SN">>

\* The raw tuple (connector_info, mode_list, props), truncated if `fields` < 3.
MkMonitor(c, kinds, lo, hi, fields) ==
    SubSeq(<<ConnectorInfo(c),
             [j \in 1..(hi - lo + 1) |-> MkMode(ModeIds[lo + j - 1], kinds[lo + j - 1], j = 1)],
             NoProps>>, 1, fields)

\* A fetched `monitors` value: modes 1..k on DP-1, k+1..n on HDMI-1.
MkMonitors(kinds, k, fields2) ==
    <<MkMonitor(1, kinds, 1, k, 3), MkMonitor(2, kinds, k + 1, Len(kinds), fields2)>>

\* The raw tuple (x, y, scale, transform, is_primary, monitors, props).
MkLogical(x, primary, conns, props) ==
    <<x, 0, 1, 0, primary, [i \in 1..Len(conns) |-> ConnectorInfo(conns[i])], props>>

ColorProps == [k \in {"color-mode"} |-> 1]

Layouts == {"separate", "mirrored", "single"}

MkLogicalMonitors(layout) ==
    CASE layout = "separate" ->
           <<MkLogical(0, TRUE, <<1>>, ColorProps), MkLogical(1920, FALSE, <<2>>, NoProps)>>
      [] layout = "mirrored" -> <<MkLogical(0, TRUE, <<2, 1>>, ColorProps)>>
      [] OTHER -> <<MkLogical(0, TRUE, <<1>>, NoProps)>>

\* ------------------------------------------------------ pure functions
\* dict.get(key, default)
Get(props, key, default) == IF key \in DOMAIN props THEN props[key] ELSE default

\* Tuple unpacking in parse_modes succeeds only on tuples of the right length.
MonitorUnpacks(monitor) ==
    /\ Len(monitor) = 3
    /\ Len(monitor[1]) = 4
    /\ \A j \in 1..Len(monitor[2]) : Len(monitor[2][j]) = 7

\* parse_modes raises ValueError on the first tuple that does not unpack.
ParseRaises(monitors) == \E i \in 1..Len(monitors) : ~MonitorUnpacks(monitors[i])

ModeDict(connector, mode) ==
    [connector |-> connector, mode_id |-> mode[1], width |-> mode[2],
     height |-> mode[3], refresh |-> mode[4], scale |-> mode[5], scales |-> mode[6],
     is_current |-> Get(mode[7], "is-current", FALSE),
     is_preferred |-> Get(mode[7], "is-preferred", FALSE),
     props |-> mode[7]]

RECURSIVE parse_modes(_)
parse_modes(monitors) ==
    IF monitors = <<>> THEN <<>>
    ELSE LET monitor == Head(monitors)
         IN  [j \in 1..Len(monitor[2]) |-> ModeDict(monitor[1][1], monitor[2][j])]
             \o parse_modes(Tail(monitors))

\* `for ...: if <test>: ...; break`: the index of the first TRUE of the
\* sequence of test results, 0 when the loop ends without a break.
FirstTrue(tests) ==
    IF \E i \in 1..Len(tests) : tests[i]
    THEN CHOOSE i \in 1..Len(tests) : tests[i] /\ \A j \in 1..(i - 1) : ~tests[j]
    ELSE 0

Abs(x) == IF x < 0 THEN -x ELSE x

\* `for m in modes: if m['is_current']: current = m; break` (0 is None).
SelectCurrent(modes) == FirstTrue([i \in 1..Len(modes) |-> modes[i].is_current])

\* Eligible with the tolerance taken inclusively (`<=` for `<`).
EligibleInclusive(m, current, target_refresh) ==
    /\ m.width = current.width
    /\ m.height = current.height
    /\ Abs(m.refresh - target_refresh) <= Tolerance

Eligible(m, current, target_refresh) ==
    /\ m.width = current.width
    /\ m.height = current.height
    /\ Abs(m.refresh - target_refresh) < Tolerance

\* The target loop of set_refresh_rate (0 is None).
SelectTarget(modes, current, target_refresh) ==
    FirstTrue([i \in 1..Len(modes) |-> Eligible(modes[i], modes[current], target_refresh)])

\* `mode_str` before its first assignment in set_refresh_rate.
Unbound == "<unbound>"

\* The inner `for m in modes` lookup of the else branch: the value of mode_str
\* after it (unchanged when no mode of `connector` is flagged current).
KeepCurrent(modes, connector, mode_str) ==
    LET i == FirstTrue([j \in 1..Len(modes) |->
                          modes[j].connector = connector /\ modes[j].is_current])
    IN  IF i = 0 THEN mode_str ELSE modes[i].mode_id

\* `new_monitor_configs.append((connector, mode_str, {}))`
NewMonitorConfig(connector, mode_str) == <<connector, mode_str, NoProps>>

\* The loop over monitor_configs; mode_str is one function-level local, so its
\* value is carried from entry to entry.  Reading it unbound raises.
RECURSIVE BuildMonitorConfigs(_, _, _, _)
BuildMonitorConfigs(monitor_configs, modes, target, mode_str) ==
    IF monitor_configs = <<>>
    THEN [raised |-> FALSE, configs |-> <<>>, mode_str |-> mode_str]
    ELSE LET connector == Head(monitor_configs)[1]
             ms == IF connector = modes[target].connector
                   THEN modes[target].mode_id
                   ELSE KeepCurrent(modes, connector, mode_str)
         IN  IF ms = Unbound
             THEN [raised |-> TRUE, configs |-> <<>>, mode_str |-> ms]
             ELSE LET rest == BuildMonitorConfigs(Tail(monitor_configs), modes, target, ms)
                  IN  [rest EXCEPT !.configs = <<NewMonitorConfig(connector, ms)>> \o @]

\* NewLogicalMonitor with x and y taken in the wrong order.
NewLogicalMonitorSwapped(lm, new_monitor_configs) ==
    <<lm[2], lm[1], lm[3], lm[4], lm[5], new_monitor_configs>>

\* `new_logical_monitors.append((x, y, scale, transform, is_primary, new_monitor_configs))`
NewLogicalMonitor(lm, new_monitor_configs) ==
    <<lm[1], lm[2], lm[3], lm[4], lm[5], new_monitor_configs>>

\* The loop over logical_monitors.
RECURSIVE BuildNewConfiguration(_, _, _, _)
BuildNewConfiguration(logical_monitors, modes, target, mode_str) ==
    IF logical_monitors = <<>>
    THEN [raised |-> FALSE, config |-> <<>>]
    ELSE LET lm == Head(logical_monitors)
             inner == BuildMonitorConfigs(lm[6], modes, target, mode_str)
         IN  IF inner.raised
             THEN [raised |-> TRUE, config |-> <<>>]
             ELSE LET rest == BuildNewConfiguration(Tail(logical_monitors), modes,
                                                    target, inner.mode_str)
                  IN  [rest EXCEPT !.config = <<NewLogicalMonitor(lm, inner.configs)>> \o @]

\* float(arg): the three command-line words of the model.
FloatRaises(arg) == arg \notin {"60", "61"}
Float(arg) == IF arg = "60" THEN 120 ELSE 122

\* --------------------------------------------------------------- state
VARIABLES
    svcSerial,      \* the service's configuration serial
    svcMonitors,    \* the service's per-connector mode catalog (raw tuples)
    svcLogical,     \* the service's logical-monitor arrangement (raw tuples)
    proc            \* per invocation: position, locals of set_refresh_rate, output

vars == <<svcSerial, svcMonitors, svcLogical, proc>>

\* An invocation before main runs.  pc "Off" is a slot no invocation uses.
NewProc(pc) ==
    [pc |-> pc, arg |-> "", target_refresh |-> 0,
     serial |-> 0, monitors |-> <<>>, logical_monitors |-> <<>>,
     modes |-> <<>>, current |-> 0, target |-> 0, new_logical_monitors |-> <<>>,
     out |-> "", exc |-> "", stage |-> "", exit |-> -1,
     nFetch |-> 0, nApply |-> 0, sentSerial |-> 0, sentMethod |-> 0,
     stale |-> FALSE, accepted |-> FALSE]

\* `return False` after a printed message: main returns 1.
Failed(r, msg) == [r EXCEPT !.pc = "Failed", !.out = msg, !.stage = r.pc, !.exit = 1]
\* `return True`: main returns 0.
Done(r, msg) == [r EXCEPT !.pc = "Done", !.out = msg, !.stage = r.pc, !.exit = 0]
\* An exception no handler catches: traceback, interpreter exit status 1.
Crashed(r, exc) ==
    [r EXCEPT !.pc = "Crashed", !.out = "Traceback", !.exc = exc, !.stage = r.pc, !.exit = 1]
\* main's `except ValueError`: prints "Invalid argument", returns 1.
InvalidArgument(r) ==
    [r EXCEPT !.pc = "Failed", !.out = "InvalidArgument", !.exc = "ValueError",
              !.stage = r.pc, !.exit = 1]

\* ------------------------------------------------------------- service
\* The service knows the connector and the mode id of every entry it is sent.
ConfigValid(monitors, config) ==
    \A l \in 1..Len(config) : \A c \in 1..Len(config[l][6]) :
        \E i \in 1..Len(monitors) :
            /\ monitors[i][1][1] = config[l][6][c][1]
            /\ \E j \in 1..Len(monitors[i][2]) : monitors[i][2][j][1] = config[l][6][c][2]

\* ApplyMonitorsConfig succeeds only for the current serial and a valid shape.
SvcAccepts(serial, config) == serial = svcSerial /\ ConfigValid(svcMonitors, config)

\* The mode id a submitted configuration names for `connector` ("" when none).
ConfigMode(config, connector) ==
    IF \E l \in 1..Len(config) : \E c \in 1..Len(config[l][6]) : config[l][6][c][1] = connector
    THEN LET l == CHOOSE l \in 1..Len(config) :
                    \E c \in 1..Len(config[l][6]) : config[l][6][c][1] = connector
             c == CHOOSE c \in 1..Len(config[l][6]) : config[l][6][c][1] = connector
         IN  config[l][6][c][2]
    ELSE ""

\* The catalog after an accepted write: is-current follows the configuration.
SvcSetCurrent(monitors, config) ==
    [i \in 1..Len(monitors) |->
        LET mid == ConfigMode(config, monitors[i][1][1])
            mode_list == monitors[i][2]
            Flagged(mode) ==
                [mode EXCEPT ![7] = ModeProps(mode[1] = mid, Get(mode[7], "is-preferred", FALSE))]
        IN  IF mid = "" THEN monitors[i]
            ELSE [monitors[i] EXCEPT ![2] = [j \in 1..Len(mode_list) |-> Flagged(mode_list[j])]]]

\* ------------------------------------------------------------- actions
\* main, else branch, for a command-line word arg: float(arg), then
\* set_refresh_rate is entered.
Start(p) ==
    /\ proc[p].pc = "Idle"
    /\ \E arg \in Args :
          LET r == [proc[p] EXCEPT !.arg = arg]
          IN  proc' = [proc EXCEPT ![p] =
                         IF FloatRaises(arg) THEN InvalidArgument(r)
                         ELSE [r EXCEPT !.pc = "Fetching", !.target_refresh = Float(arg)]]
    /\ UNCHANGED <<svcSerial, svcMonitors, svcLogical>>

\* get_display_config_proxy and get_current_state: neither call is guarded.
Fetch(p) ==
    /\ proc[p].pc = "Fetching"
    /\ \/ \* the bus cannot be reached: new_for_bus_sync raises GLib.Error
          proc' = [proc EXCEPT ![p] = Crashed(@, "GLib.Error")]
       \/ \* GetCurrentState faults: call_sync raises GLib.Error
          proc' = [proc EXCEPT ![p] =
                     Crashed([proc[p] EXCEPT !.nFetch = @ + 1], "GLib.Error")]
       \/ proc' = [proc EXCEPT ![p] =
                     [proc[p] EXCEPT !.pc = "Parsing", !.nFetch = @ + 1,
                               !.serial = svcSerial, !.monitors = svcMonitors,
                               !.logical_monitors = svcLogical]]
    /\ UNCHANGED <<svcSerial, svcMonitors, svcLogical>>

\* modes = parse_modes(monitors); its ValueError reaches main's handler.
Parse(p) ==
    /\ proc[p].pc = "Parsing"
    /\ LET r == proc[p]
       IN  proc' = [proc EXCEPT ![p] =
                      IF ParseRaises(r.monitors) THEN InvalidArgument(r)
                      ELSE [r EXCEPT !.pc = "Selecting", !.modes = parse_modes(r.monitors)]]
    /\ UNCHANGED <<svcSerial, svcMonitors, svcLogical>>

\* The current loop, the target loop and the three early returns.
Select(p) ==
    /\ proc[p].pc = "Selecting"
    /\ LET r == proc[p]
           current == SelectCurrent(r.modes)
           target == SelectTarget(r.modes, current, r.target_refresh)
       IN  proc' = [proc EXCEPT ![p] =
                      IF current = 0 THEN Failed(r, "NoCurrentMode")
                      ELSE IF target = 0
                           THEN Failed([r EXCEPT !.current = current], "ModeNotFound")
                      ELSE IF r.modes[target].is_current
                           THEN Done([r EXCEPT !.current = current, !.target = target],
                                     "AlreadyAt")
                      ELSE [r EXCEPT !.pc = "Building", !.current = current,
                                     !.target = target]]
    /\ UNCHANGED <<svcSerial, svcMonitors, svcLogical>>

\* The new_logical_monitors loops; an unbound mode_str is an UnboundLocalError.
Build(p) ==
    /\ proc[p].pc = "Building"
    /\ LET r == proc[p]
           built == BuildNewConfiguration(r.logical_monitors, r.modes, r.target, Unbound)
       IN  proc' = [proc EXCEPT ![p] =
                      IF built.raised THEN Crashed(r, "UnboundLocalError")
                      ELSE [r EXCEPT !.pc = "Applying",
                                     !.new_logical_monitors = built.config]]
    /\ UNCHANGED <<svcSerial, svcMonitors, svcLogical>>

\* ApplySerial taking the service's latest serial instead of the fetched one.
ApplySerialLatest(r) == svcSerial

\* The serial apply_config is called with.
ApplySerial(r) == r.serial

\* ApplyFaulted with a handler that does not catch the service fault.
ApplyFaultedUncaught(r) == Crashed(r, "GLib.Error")

\* `except Exception as e`: the fault is printed and False returned.
ApplyFaulted(r) == Failed(r, "ApplyError")

\* apply_config inside try/except: one ApplyMonitorsConfig call, method 1.
Apply(p) ==
    /\ proc[p].pc = "Applying"
    /\ LET r == [proc[p] EXCEPT !.nApply = @ + 1, !.sentSerial = ApplySerial(proc[p]),
                                !.sentMethod = Method,
                                !.stale = (ApplySerial(proc[p]) # svcSerial)]
       IN  IF SvcAccepts(r.sentSerial, r.new_logical_monitors)
           THEN /\ svcSerial' = svcSerial + 1
                /\ svcMonitors' = SvcSetCurrent(svcMonitors, r.new_logical_monitors)
                /\ proc' = [proc EXCEPT ![p] = Done([r EXCEPT !.accepted = TRUE], "Set")]
           ELSE /\ proc' = [proc EXCEPT ![p] = ApplyFaulted(r)]
                /\ UNCHANGED <<svcSerial, svcMonitors>>
    /\ UNCHANGED svcLogical

\* Another client changes the configuration: the service bumps its serial.
\* Only a change between an invocation's fetch and its apply matters to it,
\* and the steps between the two touch nothing shared: the change is taken
\* when some invocation is about to apply.
ExternalChange ==
    /\ svcSerial < MaxSerial
    /\ \E p \in Procs : proc[p].pc = "Applying"
    /\ svcSerial' = svcSerial + 1
    /\ UNCHANGED <<svcMonitors, svcLogical, proc>>

Next ==
    \/ \E p \in Procs : Start(p)
    \/ \E p \in Procs : Fetch(p)
    \/ \E p \in Procs : Parse(p)
    \/ \E p \in Procs : Select(p)
    \/ \E p \in Procs : Build(p)
    \/ \E p \in Procs : Apply(p)
    \/ ExternalChange

\* ------------------------------------------------------- specifications
\* One invocation against every service state within the bounds.
Init ==
    /\ svcSerial = 1
    /\ \E n \in 0..MaxModes : \E k \in 0..n : \E kinds \in [1..n -> ModeKinds] :
       \E fields2 \in {2, 3} :
          /\ fields2 = 2 => k = n
          /\ svcMonitors = MkMonitors(kinds, k, fields2)
    /\ \E layout \in Layouts : svcLogical = MkLogicalMonitors(layout)
    /\ proc = [p \in Procs |-> IF p = 1 THEN NewProc("Idle") ELSE NewProc("Off")]

Spec == Init /\ [][Next]_vars

\* Well-formed modes of one resolution, for the concurrent specification.
ConcKinds == {k \in ModeKinds : k.fields = 7 /\ k.res = <<1920, 1080>>}

\* Every invocation slot runs, against one connector with two modes of which
\* exactly one is current.
InitConc ==
    /\ svcSerial = 1
    /\ \E kinds \in [1..2 -> ConcKinds] :
          /\ kinds[1].cur # kinds[2].cur
          /\ svcMonitors = MkMonitors(kinds, 2, 3)
    /\ svcLogical = MkLogicalMonitors("single")
    /\ proc = [p \in Procs |-> NewProc("Idle")]

SpecConc == InitConc /\ [][Next]_vars

\* ---------------------------------------------------- claim vocabulary
Terminal(r) == r.pc \in {"Done", "Failed", "Crashed"}
\* The selection loops have run and found a current mode.
Selected(r) == r.current # 0
\* The configuration loops have run to their end.
Built(r) == r.pc = "Applying" \/ r.nApply > 0
\* parse_modes has been called.
ParseCalled(r) ==
    \/ r.stage \in {"Parsing", "Selecting", "Building", "Applying"}
    \/ r.pc \in {"Selecting", "Building", "Applying"}

\* C1: whenever the current mode's refresh is within 1.0 Hz of the requested
\* rate, the selected target is the current mode itself, the tool prints
\* "Already at", exits 0 and never calls Apply - whatever the list order.
C1_NoOpWhenCurrentNear ==
    \A p \in Procs :
        LET r == proc[p] IN
        (Selected(r) /\ Abs(r.modes[r.current].refresh - r.target_refresh) < Tolerance)
            => /\ r.target = r.current
               /\ r.pc = "Done" /\ r.out = "AlreadyAt" /\ r.exit = 0
               /\ r.nApply = 0

\* C2: the target is the first mode, in service order, of the current
\* resolution whose refresh differs from the requested rate by strictly less
\* than 1.0 Hz; there is no target exactly when no mode qualifies; a mode at
\* exactly 1.0 Hz is never the target.
C2_TargetIsFirstEligible ==
    \A p \in Procs :
        LET r == proc[p]
            cur == r.modes[r.current]
            E == {i \in 1..Len(r.modes) :
                    /\ r.modes[i].width = cur.width
                    /\ r.modes[i].height = cur.height
                    /\ r.modes[i].refresh - r.target_refresh < Tolerance
                    /\ r.target_refresh - r.modes[i].refresh < Tolerance}
        IN  Selected(r) =>
              /\ (E = {}) <=> (r.target = 0)
              /\ (E = {}) => (r.pc = "Failed" /\ r.out = "ModeNotFound")
              /\ (E # {}) => (r.target \in E /\ \A i \in E : r.target <= i)
              /\ (r.target # 0) =>
                    Abs(r.modes[r.target].refresh - r.target_refresh) # Tolerance

\* C2 witness: the target is not the first mode, a mode of the current
\* resolution exactly 1.0 Hz away precedes it, and a later mode qualifies too.
C2_Witness ==
    \E p \in Procs :
        LET r == proc[p] IN
        /\ Selected(r) /\ r.target > 1
        /\ \E i \in 1..(r.target - 1) :
              /\ r.modes[i].width = r.modes[r.current].width
              /\ r.modes[i].height = r.modes[r.current].height
              /\ Abs(r.modes[i].refresh - r.target_refresh) = Tolerance
        /\ \E i \in (r.target + 1)..Len(r.modes) :
              Eligible(r.modes[i], r.modes[r.current], r.target_refresh)

\* The mode id of the mode of `connector` flagged current ("" when none).
OwnCurrentId(modes, connector) ==
    IF \E i \in 1..Len(modes) : modes[i].connector = connector /\ modes[i].is_current
    THEN modes[CHOOSE i \in 1..Len(modes) :
                  /\ modes[i].connector = connector /\ modes[i].is_current
                  /\ \A j \in 1..(i - 1) :
                        ~(modes[j].connector = connector /\ modes[j].is_current)].mode_id
    ELSE ""

\* C3: the built configuration names every connector of the fetched logical
\* monitors; the target's connector gets target.mode_id and every other
\* connector its own current mode_id - for every fetched state.
C3_ConfigKeepsOwnCurrent ==
    \A p \in Procs :
        LET r == proc[p] IN
        /\ ~(r.pc = "Crashed" /\ r.stage = "Building")
        /\ Built(r) =>
             /\ Len(r.new_logical_monitors) = Len(r.logical_monitors)
             /\ \A l \in 1..Len(r.logical_monitors) :
                  /\ Len(r.new_logical_monitors[l][6]) = Len(r.logical_monitors[l][6])
                  /\ \A c \in 1..Len(r.logical_monitors[l][6]) :
                       LET connector == r.logical_monitors[l][6][c][1]
                           entry == r.new_logical_monitors[l][6][c]
                       IN  /\ entry[1] = connector
                           /\ entry[2] = IF connector = r.modes[r.target].connector
                                         THEN r.modes[r.target].mode_id
                                         ELSE OwnCurrentId(r.modes, connector)

\* C4: every failure of a `<tool> <number>` invocation (service unavailable,
\* fetch fault, no current mode, no matching mode, apply rejected) ends in
\* Failed with a printed message of that kind and exit 1; exit 0 only when
\* the rate was applied or already set.
C4_FailuresAreReported ==
    \A p \in Procs :
        LET r == proc[p] IN
        Terminal(r) =>
          /\ (r.exit = 0) => (r.pc = "Done" /\ r.out \in {"Set", "AlreadyAt"})
          /\ (r.out = "Set") => r.accepted
          /\ (r.stage = "Fetching") =>
                (r.pc = "Failed" /\ r.exit = 1
                 /\ r.out \in {"ServiceUnavailable", "ServiceCallError"})
          /\ (r.stage = "Selecting" /\ r.pc # "Done") =>
                (r.pc = "Failed" /\ r.exit = 1 /\ r.out \in {"NoCurrentMode", "ModeNotFound"})
          /\ (r.stage = "Applying" /\ r.pc # "Done") =>
                (r.pc = "Failed" /\ r.exit = 1 /\ r.out = "ApplyError")

\* C5: an Apply that returns a service fault is caught: an apply error is
\* printed, the invocation ends with exit 1 without crashing, and there is
\* no second Apply and no re-fetch.
C5_ApplyFaultIsCaught ==
    \A p \in Procs :
        LET r == proc[p] IN
        (r.nApply > 0 /\ ~r.accepted) =>
            /\ r.pc = "Failed" /\ r.out = "ApplyError" /\ r.exit = 1
            /\ r.exc = ""
            /\ r.nApply = 1 /\ r.nFetch = 1

\* C5 witness: an Apply rejected for a stale serial has been reported.
C5_Witness ==
    \E p \in Procs :
        /\ proc[p].nApply = 1 /\ proc[p].stale /\ ~proc[p].accepted
        /\ proc[p].serial < svcSerial
        /\ proc[p].pc = "Failed"

\* C6: an invocation performs exactly one fetch and at most one Apply, the
\* Apply only after a target other than the current mode was selected and
\* never after NoCurrentMode or ModeNotFound (which end in Failed, exit 1);
\* once the service has replied the invocation ends in Done or Failed.
C6_OnePassToDoneOrFailed ==
    \A p \in Procs :
        LET r == proc[p] IN
        /\ r.nFetch <= 1 /\ r.nApply <= 1
        /\ (r.pc \in {"Parsing", "Selecting", "Building", "Applying"}) => r.nFetch = 1
        /\ (r.pc = "Applying" \/ r.nApply > 0) =>
              (r.target # 0 /\ r.target # r.current /\ ~r.modes[r.target].is_current)
        /\ (r.out \in {"NoCurrentMode", "ModeNotFound"}) =>
              (r.nApply = 0 /\ r.pc = "Failed" /\ r.exit = 1)
        /\ (Terminal(r) /\ r.nFetch = 1) => r.pc \in {"Done", "Failed"}

\* C7: every Apply carries the serial of the invocation's own fetch; an Apply
\* whose serial is stale fails with an apply error and exit 1; of the
\* invocations that fetched the same serial at most one Apply is accepted.
C7_StaleSerialIsRejected ==
    /\ \A p \in Procs :
          LET r == proc[p] IN
          r.nApply > 0 =>
            /\ r.sentSerial = r.serial
            /\ r.stale => (~r.accepted /\ r.pc = "Failed"
                           /\ r.out = "ApplyError" /\ r.exit = 1)
    /\ \A p, q \in Procs :
          (p # q /\ proc[p].accepted /\ proc[q].accepted) => proc[p].serial # proc[q].serial

\* C7 witness: two invocations fetched the same serial and both called Apply;
\* one was accepted, the other was stale and failed.
C7_Witness ==
    \E p, q \in Procs :
        /\ p # q
        /\ proc[p].serial = proc[q].serial
        /\ proc[p].accepted /\ proc[p].pc = "Done"
        /\ proc[q].nApply = 1 /\ proc[q].stale /\ proc[q].pc = "Failed"

\* The fetched monitor list without its malformed connector and mode entries.
OmitMalformed(monitors) ==
    LET GoodMonitor(m) == Len(m) = 3 /\ Len(m[1]) = 4
        GoodMode(mode) == Len(mode) = 7
        good == SelectSeq(monitors, GoodMonitor)
    IN  [i \in 1..Len(good) |-> [good[i] EXCEPT ![2] = SelectSeq(@, GoodMode)]]

\* C8: parse_modes never fails: it returns the well-formed modes in service
\* order, malformed entries omitted, and no parse error reaches the caller
\* (none is reported as "Invalid argument").
C8_ParseNeverFails ==
    \A p \in Procs :
        LET r == proc[p] IN
        ParseCalled(r) =>
            /\ r.stage # "Parsing"
            /\ r.out # "InvalidArgument"
            /\ r.modes = parse_modes(OmitMalformed(r.monitors))

\* C9: the built configuration has the fetched logical monitors in the same
\* order, each with x, y, scale, transform and is_primary unchanged and the
\* same connectors in the same order; every per-connector property map in
\* it is empty.
C9_LayoutIsPreserved ==
    \A p \in Procs :
        LET r == proc[p] IN
        Built(r) =>
            /\ Len(r.new_logical_monitors) = Len(r.logical_monitors)
            /\ \A l \in 1..Len(r.logical_monitors) :
                 LET old == r.logical_monitors[l]
                     new == r.new_logical_monitors[l]
                 IN  /\ Len(new) = 6
                     /\ \A f \in 1..5 : new[f] = old[f]
                     /\ Len(new[6]) = Len(old[6])
                     /\ \A c \in 1..Len(old[6]) :
                          /\ Len(new[6][c]) = 3
                          /\ new[6][c][1] = old[6][c][1]
                          /\ DOMAIN new[6][c][3] = {}

\* C9 witness: a configuration of two logical monitors, the first of which
\* was fetched with properties, has been submitted and accepted.
C9_Witness ==
    \E p \in Procs :
        LET r == proc[p] IN
        /\ r.accepted
        /\ Len(r.logical_monitors) = 2
        /\ r.logical_monitors[2][1] # r.logical_monitors[2][2]
        /\ DOMAIN r.logical_monitors[1][7] # {}

\* C10: the selected target belongs to the connector of the current mode.
C10_TargetOnCurrentConnector ==
    \A p \in Procs :
        LET r == proc[p] IN
        (Selected(r) /\ r.target # 0) =>
            r.modes[r.target].connector = r.modes[r.current].connector

====
